---- MODULE Spec2Model ----
(***************************************************************************)
(* Sales Forecasting & Inventory Optimization Dashboard (src/src/App.js).  *)
(*                                                                         *)
(* The App component holds four pure helpers -- generateSyntheticSalesData,*)
(* simulateProphetForecast, evaluateModel, calculateInventoryRecommenda-   *)
(* tions -- and one mount effect that runs them in sequence and stores the *)
(* results in React state.                                                 *)
(*                                                                         *)
(* Conventions of this model                                               *)
(*  - A JavaScript Date is its time value, counted here in MINUTES since   *)
(*    1970-01-01T00:00Z (every instant the code produces is a whole number *)
(*    of minutes; milliseconds would not fit TLC's integers).              *)
(*  - A date string 'YYYY-MM-DD' is the tuple <<y, m, d>>.                 *)
(*  - Real-valued sales quantities are carried in thousandths (Milli);     *)
(*    the safety factor is carried in hundredths (20 is 0.20).             *)
(*  - The host's time zone is part of the environment: new Date(string)    *)
(*    and toISOString work in UTC, while getDate/setDate/getDay/           *)
(*    getFullYear and new Date(y, m, d) work in local time.                *)
(***************************************************************************)
EXTENDS Integers, Sequences, FiniteSets, TLC

VARIABLES
    tz,                        \* the host's time zone (environment)
    config,                    \* START_DATE, END_DATE, FORECAST_PERIOD_DAYS, SAFETY_STOCK_FACTOR
    mounted,                   \* whether the mount effect has run
    salesData,                 \* useState: historical series
    forecastData,              \* useState: future forecast
    inventoryRecommendations,  \* useState: recommendations
    mae,                       \* useState: mean absolute error (hundredths)
    rmse,                      \* useState: root mean squared error (hundredths)
    historicalForecastSim,     \* the effect's local: the back-test forecast
    crashed,                   \* the error the effect died with, or "none"
    fn,                        \* direct call: the helper called, or "none"
    args,                      \* direct call: its arguments
    ret,                       \* direct call: its outcome [err, val]
    randomDraws,               \* Math.random() draws consumed so far (process-wide source)
    historyArray,              \* direct call: the array passed as historicalData, as it now is
    previous                   \* direct call: the outcome of the earlier of two equal calls

vars == <<tz, config, mounted, salesData, forecastData, inventoryRecommendations,
          mae, rmse, historicalForecastSim, crashed, fn, args, ret,
          randomDraws, historyArray, previous>>

-----------------------------------------------------------------------------
(* Bounds of the model *)

\* longest history handed to simulateProphetForecast directly
MaxHist == 3
\* largest forecastPeriods
MaxHorizon == 3
\* largest endDate - startDate, in days, of a generated range
MaxSpan == 3
\* longest actuals / predictions / forecasts handed to evaluateModel and
\* calculateInventoryRecommendations directly
MaxEval == 2

-----------------------------------------------------------------------------
(* Arithmetic helpers *)

Max(a, b) == IF a >= b THEN a ELSE b

Abs(a) == IF a >= 0 THEN a ELSE -a

\* a whole quantity in thousandths
Milli(x) == 1000 * x

\* Math.round on a value in thousandths: the nearest integer, ties towards
\* +Infinity (floor(x + 0.5)); \div is floor division.
MathRound(x) == (x + 500) \div 1000

\* Math.sqrt on a radicand carried in ten-thousandths, the root in hundredths,
\* rounded down.
RECURSIVE SqrtSearch(_, _, _)
SqrtSearch(v, lo, hi) ==
    IF lo >= hi THEN lo
    ELSE LET mid == (lo + hi + 1) \div 2
         IN  IF mid * mid <= v THEN SqrtSearch(v, mid, hi)
             ELSE SqrtSearch(v, lo, mid - 1)

MathSqrt(v) == SqrtSearch(v, 0, 46340)

-----------------------------------------------------------------------------
(* The Date built-in: calendar *)

\* milliseconds-per-day divisor (1000 * 60 * 60 * 24), here in minutes
MinutesPerDay == 1440

\* days since 1970-01-01 of the civil date y-m-d (proleptic Gregorian)
DaysFromCivil(y, m, d) ==
    LET yy  == IF m <= 2 THEN y - 1 ELSE y
        era == yy \div 400
        yoe == yy - era * 400
        mp  == IF m > 2 THEN m - 3 ELSE m + 9
        doy == (153 * mp + 2) \div 5 + d - 1
        doe == yoe * 365 + yoe \div 4 - yoe \div 100 + doy
    IN  era * 146097 + doe - 719468

\* the civil date <<y, m, d>> of a day number
CivilFromDays(z) ==
    LET zz  == z + 719468
        era == zz \div 146097
        doe == zz - era * 146097
        yoe == (doe - doe \div 1460 + doe \div 36524 - doe \div 146096) \div 365
        doy == doe - (365 * yoe + yoe \div 4 - yoe \div 100)
        mp  == (5 * doy + 2) \div 153
        d   == doy - (153 * mp + 2) \div 5 + 1
        m   == IF mp < 10 THEN mp + 3 ELSE mp - 9
        y   == yoe + era * 400
    IN  <<IF m <= 2 THEN y + 1 ELSE y, m, d>>

\* new Date('YYYY-MM-DD'): a date-only string is UTC midnight of that day
NewDate(ds) == DaysFromCivil(ds[1], ds[2], ds[3]) * MinutesPerDay

\* date.toISOString().split('T')[0]: the UTC calendar date of the instant
ToISODate(t) == CivilFromDays(t \div MinutesPerDay)

-----------------------------------------------------------------------------
(* The Date built-in: local time *)

\* A zone is [name, std, dstFrom, dstTo]: the standard offset in minutes east
\* of UTC, and the UTC interval [dstFrom, dstTo) in which clocks are one hour
\* ahead (empty when dstFrom = dstTo).  The daylight-saving interval given is
\* the one of 2024; the model's dates stay within 2024.
UTC == [name |-> "UTC", std |-> 0, dstFrom |-> 0, dstTo |-> 0]

Kolkata == [name |-> "Asia/Kolkata", std |-> 330, dstFrom |-> 0, dstTo |-> 0]

NewYork == [name |-> "America/New_York", std |-> -300,
            dstFrom |-> NewDate(<<2024, 3, 10>>) + 7 * 60,
            dstTo   |-> NewDate(<<2024, 11, 3>>) + 6 * 60]

Zones == {UTC, Kolkata, NewYork}

\* the zone's offset from UTC at instant t
Offset(z, t) == z.std + (IF z.dstFrom <= t /\ t < z.dstTo THEN 60 ELSE 0)

\* local clock reading (as minutes since the local epoch) of instant t
LocalTime(z, t) == t + Offset(z, t)

\* the instant of a local clock reading; a repeated reading takes the earlier
\* instant, a skipped one is read with the offset before the transition
UTCOfLocal(z, l) ==
    LET viaDst == l - (z.std + 60)
    IN  IF Offset(z, viaDst) = z.std + 60 THEN viaDst ELSE l - z.std

\* date.setDate(date.getDate() + 1): the same local clock time, one local
\* calendar day later
SetDatePlusOne(z, t) ==
    LET l == LocalTime(z, t)
    IN  UTCOfLocal(z, (l \div MinutesPerDay + 1) * MinutesPerDay + (l % MinutesPerDay))

\* date.getDay(): local day of the week, Sunday 0 .. Saturday 6
GetDay(z, t) == ((LocalTime(z, t) \div MinutesPerDay) + 4) % 7

\* date.getFullYear(): local year
GetFullYear(z, t) == CivilFromDays(LocalTime(z, t) \div MinutesPerDay)[1]

\* Math.floor((date - new Date(date.getFullYear(), 0, 0)) / (1000*60*60*24))
DayOfYear(z, t) ==
    LET jan0 == UTCOfLocal(z, (DaysFromCivil(GetFullYear(z, t), 1, 1) - 1) * MinutesPerDay)
    IN  (t - jan0) \div MinutesPerDay

-----------------------------------------------------------------------------
(* Seasonal components, shared by the generator and the simulator *)

\* 10 * Math.sin(k * (2 * Math.PI / 365)) in thousandths, for k = 0 .. 366
SinTable ==
  <<
     0, 172, 344, 516, 688, 860, 1031, 1202, 1373, 1543, 1713, 1882,
     2051, 2219, 2387, 2554, 2720, 2885, 3049, 3213, 3375, 3537, 3697, 3857,
     4015, 4172, 4328, 4482, 4636, 4787, 4938, 5087, 5234, 5380, 5524, 5667,
     5808, 5947, 6085, 6220, 6354, 6486, 6616, 6744, 6871, 6995, 7117, 7236,
     7354, 7470, 7583, 7694, 7803, 7909, 8014, 8115, 8215, 8312, 8406, 8498,
     8588, 8675, 8759, 8841, 8920, 8996, 9070, 9141, 9210, 9275, 9338, 9399,
     9456, 9511, 9562, 9611, 9657, 9701, 9741, 9778, 9813, 9845, 9873, 9899,
     9922, 9942, 9959, 9973, 9984, 9993, 9998, 10000, 9999, 9995, 9989, 9979,
     9967, 9951, 9933, 9911, 9887, 9859, 9829, 9796, 9760, 9721, 9679, 9635,
     9587, 9537, 9484, 9428, 9369, 9307, 9243, 9176, 9106, 9034, 8958, 8881,
     8800, 8717, 8631, 8543, 8452, 8359, 8264, 8165, 8065, 7962, 7856, 7749,
     7639, 7527, 7412, 7296, 7177, 7056, 6933, 6808, 6681, 6552, 6421, 6288,
     6153, 6016, 5878, 5738, 5596, 5452, 5307, 5161, 5012, 4863, 4712, 4559,
     4405, 4250, 4094, 3936, 3777, 3617, 3456, 3294, 3131, 2967, 2802, 2637,
     2470, 2303, 2135, 1967, 1798, 1628, 1458, 1287, 1117, 945, 774, 602,
     430, 258, 86, -86, -258, -430, -602, -774, -945, -1117, -1287, -1458,
     -1628, -1798, -1967, -2135, -2303, -2470, -2637, -2802, -2967, -3131, -3294, -3456,
     -3617, -3777, -3936, -4094, -4250, -4405, -4559, -4712, -4863, -5012, -5161, -5307,
     -5452, -5596, -5738, -5878, -6016, -6153, -6288, -6421, -6552, -6681, -6808, -6933,
     -7056, -7177, -7296, -7412, -7527, -7639, -7749, -7856, -7962, -8065, -8165, -8264,
     -8359, -8452, -8543, -8631, -8717, -8800, -8881, -8958, -9034, -9106, -9176, -9243,
     -9307, -9369, -9428, -9484, -9537, -9587, -9635, -9679, -9721, -9760, -9796, -9829,
     -9859, -9887, -9911, -9933, -9951, -9967, -9979, -9989, -9995, -9999, -10000, -9998,
     -9993, -9984, -9973, -9959, -9942, -9922, -9899, -9873, -9845, -9813, -9778, -9741,
     -9701, -9657, -9611, -9562, -9511, -9456, -9399, -9338, -9275, -9210, -9141, -9070,
     -8996, -8920, -8841, -8759, -8675, -8588, -8498, -8406, -8312, -8215, -8115, -8014,
     -7909, -7803, -7694, -7583, -7470, -7354, -7236, -7117, -6995, -6871, -6744, -6616,
     -6486, -6354, -6220, -6085, -5947, -5808, -5667, -5524, -5380, -5234, -5087, -4938,
     -4787, -4636, -4482, -4328, -4172, -4015, -3857, -3697, -3537, -3375, -3213, -3049,
     -2885, -2720, -2554, -2387, -2219, -2051, -1882, -1713, -1543, -1373, -1202, -1031,
     -860, -688, -516, -344, -172, 0, 172
  >>

\* 10 * Math.sin(dayOfYear * (2 * Math.PI / 365)), in thousandths
YearlySeasonality(z, t) == SinTable[DayOfYear(z, t) + 1]

\* (dayOfWeek === 0 || dayOfWeek === 6) ? 15 : 0, in thousandths
WeeklySeasonality(z, t) ==
    IF GetDay(z, t) = 0 \/ GetDay(z, t) = 6 THEN Milli(15) ELSE 0

-----------------------------------------------------------------------------
(* 1. generateSyntheticSalesData *)

\* baseSales
BaseSales == 100

\* the amplitude of the trend ramp, (i / numDays) * 50
TrendRamp == 50

\* a variant that tests the condition after the body (do ... while)
RECURSIVE DateLoopDoWhile(_, _, _)
DateLoopDoWhile(z, currentDate, endDate) ==
    <<currentDate>> \o
        (IF SetDatePlusOne(z, currentDate) <= endDate
         THEN DateLoopDoWhile(z, SetDatePlusOne(z, currentDate), endDate)
         ELSE <<>>)

\* while (currentDate <= endDate) { dates.push(...); setDate(getDate() + 1) }
RECURSIVE DateLoop(_, _, _)
DateLoop(z, currentDate, endDate) ==
    IF currentDate <= endDate
    THEN <<currentDate>> \o DateLoop(z, SetDatePlusOne(z, currentDate), endDate)
    ELSE <<>>

\* the dates array of a call
GeneratedDates(z, startDateStr, endDateStr) ==
    DateLoop(z, NewDate(startDateStr), NewDate(endDateStr))

\* dailySales of day i (1-based here, i - 1 in the code), in thousandths
DailySales(z, dates, noise, i) ==
    Milli(BaseSales)
    + (Milli(TrendRamp) * (i - 1)) \div Len(dates)
    + YearlySeasonality(z, dates[i])
    + WeeklySeasonality(z, dates[i])
    + noise[i]

\* noise is the sequence of (Math.random() - 0.5) * 10 draws, one per day
generateSyntheticSalesData(z, startDateStr, endDateStr, noise) ==
    LET dates == GeneratedDates(z, startDateStr, endDateStr)
    IN  [i \in 1..Len(dates) |->
            [ds |-> ToISODate(dates[i]),
             y  |-> Max(0, MathRound(DailySales(z, dates, noise, i)))]]

-----------------------------------------------------------------------------
(* 2. simulateProphetForecast *)

\* uncertainty: the half-width of the prediction interval
Uncertainty == 5

\* the outcome of a call: a value, or the error it threw
Returned(v) == [err |-> "none", val |-> v]

Threw(e) == [err |-> e, val |-> <<>>]

\* for (i < forecastPeriods) { futureDates.push(...); setDate(getDate() + 1) }
RECURSIVE FutureDates(_, _, _)
FutureDates(z, currentDate, n) ==
    IF n <= 0 THEN <<>>
    ELSE <<currentDate>> \o FutureDates(z, SetDatePlusOne(z, currentDate), n - 1)

\* historicalData[last].y + (date - lastHistoricalDate) / day * slope * 0.1,
\* slope = (last.y - first.y) / length when length > 1, else 0; in thousandths
SimulatedTrend(historicalData, lastHistoricalDate, date) ==
    LET n     == Len(historicalData)
        rise  == historicalData[n].y - historicalData[1].y
    IN  Milli(historicalData[n].y)
        + (IF n > 1
           THEN ((date - lastHistoricalDate) * rise * (Milli(1) \div 10))
                    \div (MinutesPerDay * n)
           ELSE 0)

\* yhat before rounding and clamping, in thousandths
RawYhat(z, historicalData, lastHistoricalDate, date) ==
    SimulatedTrend(historicalData, lastHistoricalDate, date)
    + YearlySeasonality(z, date) + WeeklySeasonality(z, date)

\* yhat_upper = Math.round(yhat + uncertainty)
YhatUpper(raw) == MathRound(raw + Milli(Uncertainty))

\* yhat_lower = Math.max(0, Math.round(yhat - uncertainty))
YhatLower(raw) == Max(0, MathRound(raw - Milli(Uncertainty)))

\* one element of futureDates.map(date => {...})
ForecastRecord(z, historicalData, lastHistoricalDate, date) ==
    LET raw == RawYhat(z, historicalData, lastHistoricalDate, date)
    IN  [ds                 |-> ToISODate(date),
         yhat               |-> Max(0, MathRound(raw)),
         yhat_lower         |-> YhatLower(raw),
         yhat_upper         |-> YhatUpper(raw),
         trend              |-> MathRound(SimulatedTrend(historicalData, lastHistoricalDate, date)),
         yearly_seasonality |-> MathRound(YearlySeasonality(z, date)),
         weekly_seasonality |-> MathRound(WeeklySeasonality(z, date))]

\* the call on a history that has a last record: lines 69-116
SimulateFrom(z, historicalData, forecastPeriods) ==
    LET lastHistoricalDate == NewDate(historicalData[Len(historicalData)].ds)
        futureDates == FutureDates(z, SetDatePlusOne(z, lastHistoricalDate),
                                   forecastPeriods)
    IN  Returned([i \in 1..Len(futureDates) |->
            ForecastRecord(z, historicalData, lastHistoricalDate, futureDates[i])])

\* a variant that answers an empty history with an empty forecast
SimulateGuarded(z, historicalData, forecastPeriods) ==
    IF Len(historicalData) = 0 THEN Returned(<<>>)
    ELSE SimulateFrom(z, historicalData, forecastPeriods)

\* a variant that widens the interval by a Math.random() draw; the draw is a
\* function of how many draws the process-wide source has given out
SimulateNoisy(z, historicalData, forecastPeriods) ==
    IF Len(historicalData) = 0 THEN Threw("TypeError")
    ELSE LET r == SimulateFrom(z, historicalData, forecastPeriods)
         IN  Returned([i \in 1..Len(r.val) |->
                 [r.val[i] EXCEPT !.yhat_upper = @ + (randomDraws % 2)]])

\* the array passed as historicalData once the call is over: the function
\* reads it (length, [0], [length - 1]) and never writes to it
HistoryAfterSimulate(historicalData) == historicalData

\* historicalData[historicalData.length - 1] is undefined for an empty array,
\* and reading .ds of it throws a TypeError before anything else runs
simulateProphetForecast(z, historicalData, forecastPeriods) ==
    IF Len(historicalData) = 0 THEN Threw("TypeError")
    ELSE SimulateFrom(z, historicalData, forecastPeriods)

-----------------------------------------------------------------------------
(* 3. evaluateModel *)

\* predictions.find(p => p.ds === item.ds): the index of the first match, 0 if none
RECURSIVE FindFrom(_, _, _)
FindFrom(predictions, ds, i) ==
    IF i > Len(predictions) THEN 0
    ELSE IF predictions[i].ds = ds THEN i
    ELSE FindFrom(predictions, ds, i + 1)

Find(predictions, ds) == FindFrom(predictions, ds, 1)

\* the value null, and a number n, as the value of item.predicted
Null == <<>>

Num(n) == <<n>>

\* a variant that scores a missing prediction as a prediction of 0
PredictedOrZero(predictions, item) ==
    IF Find(predictions, item.ds) = 0 THEN Num(0)
    ELSE Num(predictions[Find(predictions, item.ds)].yhat)

\* predicted: pred ? pred.yhat : null
Predicted(predictions, item) ==
    IF Find(predictions, item.ds) = 0 THEN Null
    ELSE Num(predictions[Find(predictions, item.ds)].yhat)

\* actuals.map(...).filter(item => item.predicted !== null)
MergedData(actuals, predictions) ==
    LET mapped == [i \in 1..Len(actuals) |->
                      [actual |-> actuals[i].y,
                       predicted |-> Predicted(predictions, actuals[i])]]
        Kept(item) == item.predicted # Null
    IN  SelectSeq(mapped, Kept)

\* val - predictedValues[i] of the i-th merged pair
Error(merged, i) == merged[i].actual - merged[i].predicted[1]

\* a variant that sums the signed errors (Math.abs left out)
RECURSIVE SumSigned(_, _)
SumSigned(merged, i) ==
    IF i = 0 THEN 0
    ELSE SumSigned(merged, i - 1) + Error(merged, i)

\* reduce((sum, val, i) => sum + Math.abs(val - predictedValues[i]), 0)
RECURSIVE SumAbs(_, _)
SumAbs(merged, i) ==
    IF i = 0 THEN 0
    ELSE SumAbs(merged, i - 1) + Abs(Error(merged, i))

\* reduce((sum, val, i) => sum + Math.pow(val - predictedValues[i], 2), 0)
RECURSIVE SumSq(_, _)
SumSq(merged, i) ==
    IF i = 0 THEN 0
    ELSE SumSq(merged, i - 1) + Error(merged, i) * Error(merged, i)

\* mae and rmse are carried in hundredths, rounded down
evaluateModel(actuals, predictions) ==
    LET mergedData == MergedData(actuals, predictions)
        n == Len(mergedData)
    IN  IF n = 0 THEN [mae |-> 0, rmse |-> 0]
        ELSE [mae  |-> (100 * SumAbs(mergedData, n)) \div n,
              rmse |-> MathSqrt((100 * 100 * SumSq(mergedData, n)) \div n)]

-----------------------------------------------------------------------------
(* 4. calculateInventoryRecommendations *)

\* a variant that rounds down (Math.floor) instead of to the nearest integer
RecommendedInventoryFloor(yhat, safetyFactor) ==
    (Milli(yhat) + yhat * safetyFactor * 10) \div 1000

\* a variant that takes the buffer off instead of adding it
RecommendedInventoryMinus(yhat, safetyFactor) ==
    MathRound(Milli(yhat) - yhat * safetyFactor * 10)

\* a variant that adds the magnitude of the buffer, whatever its sign
RecommendedInventoryAbs(yhat, safetyFactor) ==
    MathRound(Milli(yhat) + Abs(yhat * safetyFactor) * 10)

\* Math.round(f.yhat + (f.yhat * safetyFactor)), safetyFactor in hundredths
RecommendedInventory(yhat, safetyFactor) ==
    MathRound(Milli(yhat) + yhat * safetyFactor * 10)

calculateInventoryRecommendations(forecasts, safetyFactor) ==
    [i \in 1..Len(forecasts) |->
        [ds   |-> forecasts[i].ds,
         yhat |-> forecasts[i].yhat,
         recommended_inventory |-> RecommendedInventory(forecasts[i].yhat, safetyFactor)]]

-----------------------------------------------------------------------------
(* Input domains *)

\* the date n days after the date string ds
PlusDays(ds, n) == CivilFromDays(DaysFromCivil(ds[1], ds[2], ds[3]) + n)

\* days from date string a to date string b
DaysBetween(a, b) == DaysFromCivil(b[1], b[2], b[3]) - DaysFromCivil(a[1], a[2], a[3])

\* first days of the ranges and histories tried: New Year's Day, and the two
\* days before the night of 2024-03-10 on which New York's clocks go forward
StartDates == {<<2024, 1, 1>>, <<2024, 3, 8>>, <<2024, 3, 9>>}

\* (Math.random() - 0.5) * 10 lies in [-5, 5): its two extremes, in thousandths
NoiseValues == {-Milli(5), Milli(5) - 1}

\* safety factors in hundredths; SAFETY_STOCK_FACTOR is 20
Factors == {0, 10, 20, 50}

NegativeFactors == {-50, -20}

\* actualSales values of hand-made histories
SalesValues == {0, 100, 200}

\* every series of at most maxLen consecutive days from a start date
Histories(maxLen) ==
    {[i \in 1..n |-> [ds |-> PlusDays(s, i - 1), y |-> ys[i]]] :
        <<s, n, ys>> \in {<<s, n, ys>> \in StartDates \X (0..maxLen) \X
                              UNION {[1..k -> SalesValues] : k \in 0..maxLen} :
                              Len(ys) = n}}

\* every sequence of at most maxLen elements of S
SeqsUpTo(S, maxLen) == UNION {[1..n -> S] : n \in 0..maxLen}

\* date keys and values of the series handed to evaluateModel
EvalDates == {<<2024, 1, 1>>, <<2024, 1, 2>>}

Actuals == SeqsUpTo([ds : EvalDates, y : {80, 100}], MaxEval)

Predictions == SeqsUpTo([ds : EvalDates, yhat : {90, 100}], MaxEval)

\* forecasts handed to calculateInventoryRecommendations: yhat is never negative
Forecasts == SeqsUpTo([ds : EvalDates, yhat : {0, 5, 90, 100}], MaxEval)

\* the configuration constants of the component, START_DATE <= END_DATE
Configs ==
    {[START_DATE |-> s, END_DATE |-> PlusDays(s, k),
      FORECAST_PERIOD_DAYS |-> h, SAFETY_STOCK_FACTOR |-> f] :
        <<s, k, h, f>> \in StartDates \X (0..MaxSpan) \X (0..MaxHorizon) \X Factors}

-----------------------------------------------------------------------------
(* The component *)

\* useState initial values; no helper called directly
Fresh ==
    /\ mounted = FALSE
    /\ salesData = <<>>
    /\ forecastData = <<>>
    /\ inventoryRecommendations = <<>>
    /\ mae = 0
    /\ rmse = 0
    /\ historicalForecastSim = <<>>
    /\ crashed = "none"
    /\ fn = "none"
    /\ args = <<>>
    /\ ret = Returned(<<>>)
    /\ randomDraws = 0
    /\ historyArray = <<>>
    /\ previous = <<>>

Init ==
    /\ tz \in Zones
    /\ config \in Configs
    /\ Fresh

\* the body of the mount effect once the history is generated
EffectWith(historical) ==
    LET sim == simulateProphetForecast(tz, historical, Len(historical))
        fut == simulateProphetForecast(tz, historical, config.FORECAST_PERIOD_DAYS)
    IN  /\ mounted' = TRUE
        /\ salesData' = historical
        /\ IF sim.err # "none"
           THEN /\ crashed' = sim.err
                /\ UNCHANGED <<historicalForecastSim, mae, rmse, forecastData,
                               inventoryRecommendations>>
           ELSE /\ crashed' = "none"
                /\ historicalForecastSim' = sim.val
                /\ mae' = evaluateModel(historical, sim.val).mae
                /\ rmse' = evaluateModel(historical, sim.val).rmse
                /\ forecastData' = fut.val
                /\ inventoryRecommendations' =
                       calculateInventoryRecommendations(fut.val, config.SAFETY_STOCK_FACTOR)

\* useEffect(() => {...}, []): runs once on mount
MountEffect ==
    /\ ~mounted
    /\ \E noise \in [1..Len(GeneratedDates(tz, config.START_DATE, config.END_DATE))
                        -> NoiseValues] :
           EffectWith(generateSyntheticSalesData(tz, config.START_DATE,
                                                 config.END_DATE, noise))
    /\ randomDraws' = randomDraws
                          + Len(GeneratedDates(tz, config.START_DATE, config.END_DATE))
    /\ UNCHANGED <<tz, config, fn, args, ret, historyArray, previous>>

Next == MountEffect

Spec == Init /\ [][Next]_vars

-----------------------------------------------------------------------------
(* The helpers called directly, on inputs of any shape *)

\* the constants as the source sets them
SourceConfig ==
    [START_DATE |-> <<2022, 1, 1>>, END_DATE |-> <<2024, 12, 31>>,
     FORECAST_PERIOD_DAYS |-> 90, SAFETY_STOCK_FACTOR |-> 20]

CallInit ==
    /\ tz \in Zones
    /\ config = SourceConfig
    /\ Fresh

Untouched ==
    UNCHANGED <<tz, config, mounted, salesData, forecastData, inventoryRecommendations,
                mae, rmse, historicalForecastSim, crashed>>

\* generateSyntheticSalesData(startDateStr, endDateStr), the range possibly inverted
CallGenerate ==
    /\ fn = "none"
    /\ \E s \in StartDates, k \in -1..MaxSpan :
         \E noise \in [1..Len(GeneratedDates(tz, s, PlusDays(s, k))) -> NoiseValues] :
           /\ fn' = "generate"
           /\ args' = [startDateStr |-> s, endDateStr |-> PlusDays(s, k)]
           /\ ret' = Returned(generateSyntheticSalesData(tz, s, PlusDays(s, k), noise))
           /\ randomDraws' = randomDraws + Len(GeneratedDates(tz, s, PlusDays(s, k)))
    /\ UNCHANGED <<historyArray, previous>>
    /\ Untouched

\* simulateProphetForecast(historicalData, forecastPeriods)
CallSimulate ==
    /\ fn = "none"
    /\ \E h \in Histories(MaxHist), n \in 0..MaxHorizon :
           /\ fn' = "simulate"
           /\ args' = [historicalData |-> h, forecastPeriods |-> n]
           /\ ret' = simulateProphetForecast(tz, h, n)
           /\ historyArray' = HistoryAfterSimulate(h)
    /\ UNCHANGED <<randomDraws, previous>>
    /\ Untouched

\* a call of the generator between two calls of the simulator; its series is
\* not kept, its Math.random() draws are consumed
GenerateBetweenCalls ==
    /\ fn = "simulate"
    /\ previous = <<>>
    /\ randomDraws = 0
    /\ \E s \in StartDates, k \in 0..MaxSpan :
           randomDraws' = randomDraws + Len(GeneratedDates(tz, s, PlusDays(s, k)))
    /\ UNCHANGED <<fn, args, ret, historyArray, previous>>
    /\ Untouched

\* simulateProphetForecast called again with the same array and the same
\* forecastPeriods
RepeatSimulate ==
    /\ fn = "simulate"
    /\ previous = <<>>
    /\ previous' = <<ret>>
    /\ ret' = simulateProphetForecast(tz, historyArray, args.forecastPeriods)
    /\ historyArray' = HistoryAfterSimulate(historyArray)
    /\ UNCHANGED <<fn, args, randomDraws>>
    /\ Untouched

\* evaluateModel(actuals, predictions)
CallEvaluate ==
    /\ fn = "none"
    /\ \E a \in Actuals, p \in Predictions :
           /\ fn' = "evaluate"
           /\ args' = [actuals |-> a, predictions |-> p]
           /\ ret' = Returned(evaluateModel(a, p))
    /\ UNCHANGED <<randomDraws, historyArray, previous>>
    /\ Untouched

\* calculateInventoryRecommendations(forecasts, safetyFactor)
CallPlan ==
    /\ fn = "none"
    /\ \E f \in Forecasts, sf \in Factors \cup NegativeFactors :
           /\ fn' = "plan"
           /\ args' = [forecasts |-> f, safetyFactor |-> sf]
           /\ ret' = Returned(calculateInventoryRecommendations(f, sf))
    /\ UNCHANGED <<randomDraws, historyArray, previous>>
    /\ Untouched

CallNext ==
    \/ CallGenerate
    \/ CallSimulate
    \/ GenerateBetweenCalls
    \/ RepeatSimulate
    \/ CallEvaluate
    \/ CallPlan

CallSpec == CallInit /\ [][CallNext]_vars

-----------------------------------------------------------------------------
(* Claims *)

\* the date keys of a series, in order
DateKeys(series) == [i \in 1..Len(series) |-> series[i].ds]

\* the n consecutive calendar days that begin at date string ds
ConsecutiveFrom(ds, n) == [i \in 1..n |-> PlusDays(ds, i - 1)]

\* C1: for every range startDate <= endDate, generateSyntheticSalesData returns
\* exactly daysBetween(startDate, endDate) + 1 records whose date keys are the
\* consecutive calendar days from startDate to endDate, each with y >= 0.
C1_GenerateOneRecordPerDay ==
    (fn = "generate" /\ DaysBetween(args.startDateStr, args.endDateStr) >= 0) =>
        /\ ret.err = "none"
        /\ Len(ret.val) = DaysBetween(args.startDateStr, args.endDateStr) + 1
        /\ DateKeys(ret.val) = ConsecutiveFrom(args.startDateStr, Len(ret.val))
        /\ \A i \in 1..Len(ret.val) : ret.val[i].y >= 0

\* C2: every forecast record of simulateProphetForecast, for any non-empty
\* history of non-negative sales and any horizon, has
\* 0 <= yhat_lower <= yhat <= yhat_upper.
C2_IntervalHoldsPrediction ==
    (fn = "simulate" /\ Len(args.historicalData) > 0) =>
        \A i \in 1..Len(ret.val) :
            /\ 0 <= ret.val[i].yhat_lower
            /\ ret.val[i].yhat_lower <= ret.val[i].yhat
            /\ ret.val[i].yhat <= ret.val[i].yhat_upper

\* C3: in the mount effect, the back-test forecast (horizon = history length)
\* carries the date keys of the historical series, so evaluateModel pairs every
\* historical record with a forecast record and the metrics are computed over
\* a non-empty joined set.
C3_BacktestAlignedToHistory ==
    (mounted /\ crashed = "none") =>
        /\ DateKeys(historicalForecastSim) = DateKeys(salesData)
        /\ Len(MergedData(salesData, historicalForecastSim)) = Len(salesData)
        /\ Len(MergedData(salesData, historicalForecastSim)) > 0

\* C4: for any non-empty history and horizon n >= 0, simulateProphetForecast
\* returns exactly n records whose date keys are the n consecutive calendar
\* days after the last date of the history; none when n = 0.
C4_ForecastCoversHorizon ==
    (fn = "simulate" /\ Len(args.historicalData) > 0) =>
        /\ ret.err = "none"
        /\ Len(ret.val) = args.forecastPeriods
        /\ DateKeys(ret.val) =
               ConsecutiveFrom(PlusDays(args.historicalData[Len(args.historicalData)].ds, 1),
                               args.forecastPeriods)

\* C5 as stated: an empty history with a horizon > 0 fails with
\* EmptyHistoryError and produces no forecast records.
C5_EmptyHistoryError ==
    (fn = "simulate" /\ Len(args.historicalData) = 0 /\ args.forecastPeriods > 0) =>
        ret = Threw("EmptyHistoryError")

\* C5, amended: an empty history fails with a TypeError (the read of .ds of the
\* missing last record), whatever the horizon, 0 included, and produces no
\* forecast records.
C5_EmptyHistoryTypeError ==
    (fn = "simulate" /\ Len(args.historicalData) = 0) =>
        /\ ret.err = "TypeError"
        /\ ret.val = <<>>

\* C5 witness: an empty history was passed with a horizon > 0 and the call threw
C5_Witness ==
    /\ fn = "simulate"
    /\ Len(args.historicalData) = 0
    /\ args.forecastPeriods > 0
    /\ ret.err = "TypeError"

\* C6 as stated: an inverted range (startDate > endDate) fails with
\* InvalidRangeError rather than returning a series.
C6_InvalidRangeError ==
    (fn = "generate" /\ DaysBetween(args.startDateStr, args.endDateStr) < 0) =>
        ret.err = "InvalidRangeError"

\* C6, amended: an inverted range raises no error and returns the empty series.
C6_InvertedRangeIsEmpty ==
    (fn = "generate" /\ DaysBetween(args.startDateStr, args.endDateStr) < 0) =>
        ret = Returned(<<>>)

\* C6 witness: an inverted range was passed and the call returned
C6_Witness ==
    /\ fn = "generate"
    /\ DaysBetween(args.startDateStr, args.endDateStr) < 0
    /\ ret.err = "none"

\* round(predictedSales * (1 + safetyFactor)), the factor in hundredths
RoundedStock(yhat, safetyFactor) == (yhat * (100 + safetyFactor) + 50) \div 100

\* C7 as stated: a negative safetyFactor fails with InvalidFactorError and
\* yields no recommendations, so no returned record has
\* recommended_inventory < yhat.
C7_InvalidFactorError ==
    (fn = "plan") =>
        /\ args.safetyFactor < 0 => ret = Threw("InvalidFactorError")
        /\ \A i \in 1..Len(ret.val) : ret.val[i].recommended_inventory >= ret.val[i].yhat

\* C7, amended: a negative safetyFactor raises no error; the planner returns
\* one record per forecast record with
\* recommended_inventory = round(yhat * (1 + safetyFactor)), which is <= yhat;
\* recommended_inventory >= yhat holds for the records returned under a
\* safetyFactor >= 0.
C7_NegativeFactorUnderstocks ==
    (fn = "plan") =>
        /\ ret.err = "none"
        /\ Len(ret.val) = Len(args.forecasts)
        /\ \A i \in 1..Len(ret.val) :
            /\ ret.val[i].recommended_inventory =
                   RoundedStock(args.forecasts[i].yhat, args.safetyFactor)
            /\ args.safetyFactor < 0 => ret.val[i].recommended_inventory <= ret.val[i].yhat
            /\ args.safetyFactor >= 0 => ret.val[i].recommended_inventory >= ret.val[i].yhat

\* C7 witness: a negative factor was passed and a record came back understocked
C7_Witness ==
    /\ fn = "plan"
    /\ args.safetyFactor < 0
    /\ ret.err = "none"
    /\ \E i \in 1..Len(ret.val) : ret.val[i].recommended_inventory < ret.val[i].yhat

\* the positions of the actual records that have a prediction of the same date
Matched(actuals, predictions) ==
    {i \in 1..Len(actuals) : \E j \in 1..Len(predictions) : predictions[j].ds = actuals[i].ds}

\* the actual records that have a prediction of the same date, in order
MatchedOnly(actuals, predictions) ==
    LET HasPrediction(item) == \E j \in 1..Len(predictions) : predictions[j].ds = item.ds
    IN  SelectSeq(actuals, HasPrediction)

\* C8: evaluateModel is an inner join on the date key: actual records without
\* a prediction of the same date contribute nothing (the metrics are those of
\* the matched records alone), and when no date is shared the result is
\* exactly {mae: 0, rmse: 0}, with no error.
C8_InnerJoin ==
    (fn = "evaluate") =>
        /\ ret.err = "none"
        /\ Len(MergedData(args.actuals, args.predictions)) =
               Cardinality(Matched(args.actuals, args.predictions))
        /\ ret.val = evaluateModel(MatchedOnly(args.actuals, args.predictions),
                                   args.predictions)
        /\ Matched(args.actuals, args.predictions) = {} => ret.val = [mae |-> 0, rmse |-> 0]

\* C8 witness: a call where some actual records are matched, some are not, and the error is not zero
C8_Witness ==
    /\ fn = "evaluate"
    /\ Matched(args.actuals, args.predictions) # {}
    /\ Matched(args.actuals, args.predictions) # 1..Len(args.actuals)
    /\ ret.val.mae > 0

\* the error of actual record i against the first prediction of its date
PairError(actuals, predictions, i) ==
    actuals[i].y -
    predictions[CHOOSE j \in 1..Len(predictions) :
                    /\ predictions[j].ds = actuals[i].ds
                    /\ \A k \in 1..(j - 1) : predictions[k].ds # actuals[i].ds].yhat

\* the sum of f over the positions in S
RECURSIVE SumOver(_, _, _, _)
SumOver(S, actuals, predictions, squared) ==
    IF S = {} THEN 0
    ELSE LET i == CHOOSE x \in S : TRUE
             e == PairError(actuals, predictions, i)
         IN  (IF squared THEN e * e ELSE Abs(e))
             + SumOver(S \ {i}, actuals, predictions, squared)

\* C9: with n > 0 joined pairs, mae = (sum of |actual - predicted|) / n and
\* rmse = sqrt((sum of (actual - predicted)^2) / n) over exactly those pairs
\* (in hundredths, rounded down), both non-negative; actual 100 against
\* predicted 90 on one shared date gives mae = 10 and rmse = 10.
C9_MetricsOverJoinedPairs ==
    (fn = "evaluate" /\ Matched(args.actuals, args.predictions) # {}) =>
        LET S == Matched(args.actuals, args.predictions)
            n == Cardinality(S)
            meanSq == (100 * 100 * SumOver(S, args.actuals, args.predictions, TRUE)) \div n
        IN  /\ ret.val.mae = (100 * SumOver(S, args.actuals, args.predictions, FALSE)) \div n
            /\ ret.val.rmse * ret.val.rmse <= meanSq
            /\ meanSq < (ret.val.rmse + 1) * (ret.val.rmse + 1)
            /\ ret.val.mae >= 0
            /\ ret.val.rmse >= 0
            /\ (/\ args.actuals = <<[ds |-> <<2024, 1, 1>>, y |-> 100]>>
                /\ args.predictions = <<[ds |-> <<2024, 1, 1>>, yhat |-> 90]>>)
               => ret.val = [mae |-> 10 * 100, rmse |-> 10 * 100]

\* C9 witness: the call of the concrete scenario, with its result
C9_Witness ==
    /\ fn = "evaluate"
    /\ args.actuals = <<[ds |-> <<2024, 1, 1>>, y |-> 100]>>
    /\ args.predictions = <<[ds |-> <<2024, 1, 1>>, yhat |-> 90]>>
    /\ ret.val = [mae |-> 10 * 100, rmse |-> 10 * 100]

\* C10: the planner is monotonic in safetyFactor: for a forecast and factors
\* 0 <= s1 <= s2, every record's recommended_inventory under s2 is >= the same
\* record's under s1.
C10_MonotonicInFactor ==
    (fn = "plan" /\ args.safetyFactor >= 0) =>
        \A s2 \in Factors :
            s2 >= args.safetyFactor =>
                \A i \in 1..Len(ret.val) :
                    calculateInventoryRecommendations(args.forecasts, s2)[i].recommended_inventory
                        >= ret.val[i].recommended_inventory

\* C10 witness: a call with factor 0.10 on a forecast where factor 0.20 recommends strictly more
C10_Witness ==
    /\ fn = "plan"
    /\ args.safetyFactor = 10
    /\ \E i \in 1..Len(ret.val) :
           calculateInventoryRecommendations(args.forecasts, 20)[i].recommended_inventory
               > ret.val[i].recommended_inventory

\* C11: for any forecast and safetyFactor >= 0 the planner returns one record
\* per forecast record, in the same order, with the same ds and yhat, and
\* recommended_inventory = round(yhat * (1 + safetyFactor)); so
\* recommended_inventory = yhat under factor 0, and yhat 100 under factor 0.2
\* gives 120.
C11_OneRoundedRecordPerForecast ==
    (fn = "plan" /\ args.safetyFactor >= 0) =>
        /\ ret.err = "none"
        /\ Len(ret.val) = Len(args.forecasts)
        /\ \A i \in 1..Len(ret.val) :
            /\ ret.val[i].ds = args.forecasts[i].ds
            /\ ret.val[i].yhat = args.forecasts[i].yhat
            /\ ret.val[i].recommended_inventory =
                   RoundedStock(args.forecasts[i].yhat, args.safetyFactor)
            /\ args.safetyFactor = 0 => ret.val[i].recommended_inventory = ret.val[i].yhat
        /\ (/\ args.forecasts = <<[ds |-> <<2024, 1, 1>>, yhat |-> 100]>>
            /\ args.safetyFactor = 20)
           => ret.val[1].recommended_inventory = 120

\* C11 witness: the call of the concrete scenario, with its result
C11_Witness ==
    /\ fn = "plan"
    /\ args.forecasts = <<[ds |-> <<2024, 1, 1>>, yhat |-> 100]>>
    /\ args.safetyFactor = 20
    /\ ret.val = <<[ds |-> <<2024, 1, 1>>, yhat |-> 100, recommended_inventory |-> 120]>>

\* lastValue + k * slope * 0.1 with slope = (lastValue - firstValue) / length,
\* or 0 for a history of one record; in thousandths
TrendAtOffset(historicalData, k) ==
    LET n == Len(historicalData)
    IN  Milli(historicalData[n].y)
        + (IF n > 1
           THEN (k * (historicalData[n].y - historicalData[1].y) * 100) \div n
           ELSE 0)

\* the instants of the forecast days of a call on a non-empty history
ForecastInstants(z, historicalData, forecastPeriods) ==
    FutureDates(z, SetDatePlusOne(z, NewDate(historicalData[Len(historicalData)].ds)),
                forecastPeriods)

\* C12: for the forecast day at offset k = 1..horizon after the last historical
\* date, simulatedTrend = lastValue + k * slope * 0.1, the slope taken once
\* from the whole history and 0 for a history of one record, and
\* yhat = round(max(0, simulatedTrend + yearly + weekly)); the one-record
\* history {2024-01-01, 100} with horizon 1 has trend exactly 100.
C12_TrendAtDayOffset ==
    (fn = "simulate" /\ Len(args.historicalData) > 0) =>
        LET h     == args.historicalData
            last  == NewDate(h[Len(h)].ds)
            dates == ForecastInstants(tz, h, args.forecastPeriods)
        IN  /\ \A k \in 1..Len(ret.val) :
                /\ SimulatedTrend(h, last, dates[k]) = TrendAtOffset(h, k)
                /\ ret.val[k].trend = MathRound(TrendAtOffset(h, k))
                /\ ret.val[k].yhat =
                       MathRound(Max(0, TrendAtOffset(h, k)
                                        + YearlySeasonality(tz, dates[k])
                                        + WeeklySeasonality(tz, dates[k])))
            /\ (h = <<[ds |-> <<2024, 1, 1>>, y |-> 100]>> /\ args.forecastPeriods = 1)
               => /\ SimulatedTrend(h, last, dates[1]) = Milli(100)
                  /\ ret.val[1].trend = 100

====
